---- MODULE Spec2Model ----
(***************************************************************************)
(* State-machine model of the FaceTracker React component                  *)
(* (src/src/components/FaceTracker.tsx): detector bootstrap, camera        *)
(* acquisition, the requestAnimationFrame detection loop, the statistics   *)
(* and the canvas recorder.                                                *)
(*                                                                         *)
(* One action is one task of the browser's event loop: a promise           *)
(* continuation up to its next await, an event handler, an animation-frame *)
(* callback, or a user click handled by React (handler, re-render and the  *)
(* effects the re-render triggers).  State setters are modelled as         *)
(* written in the source; effects only run while the component is mounted. *)
(***************************************************************************)
EXTENDS Integers, Sequences, FiniteSets, TLC

\* ------------------------------------------------------------------ bounds
MaxFrames == 2      \* animation-frame callbacks the browser runs
MaxFaces == 2       \* faces a detector reports for one frame
MaxSessions == 2    \* recordings started
MaxChunks == 2      \* dataavailable events delivered over all recorders

\* --------------------------------------------------------------- constants
\* Confidences are kept in hundredths, the unit the UI displays them in
\* (line 466), so that the confidence 1 is One.
Hundredths == 100
One == 1 * Hundredths
Probabilities == {50}                   \* values of probability[0] below 1

NoDetector == "null"
NoDetectorMsg ==
    "Face detection not available in this browser. Please use Chrome/Edge for best results."
CameraMsg == "Camera access denied or not available. Please grant camera permissions."
RecordingMsg == "Recording not supported in this browser"

VARIABLES
    mounted,            \* the component is mounted (refs attached, effects live)
    isLoading,          \* useState, line 50
    error,              \* useState, line 51
    faceDetector,       \* useState, line 52: NoDetector, "tensorflow" or "native"
    isRecording,        \* useState, line 53
    mediaRecorder,      \* useState, line 54: 0 (null) or an index into recorders
    faceCount,          \* useState, line 55
    detectionStats,     \* useState, line 56: totalDetections, avgConfidence
    animationFrameRef,  \* useRef, line 48: id of the last frame requested
    initPc,             \* position of initializeFaceDetection
    tfAttempts,         \* calls of initializeTensorFlowDetection
    nativeAttempts,     \* calls of initializeNativeDetection
    tfResult,           \* "pending", "ok" or "failed"
    nativeResult,       \* "pending", "ok" or "failed"
    effectDeps,         \* dependency values of the camera effect's last run
    camPc,              \* position of initializeCamera
    gumCalls,           \* calls of navigator.mediaDevices.getUserMedia
    liveStreams,        \* MediaStreams obtained whose tracks are not stopped
    srcObject,          \* video.srcObject has been set
    loadedListeners,    \* 'loadeddata' listeners registered on the video
    loadedFired,        \* the video's 'loadeddata' event has fired
    readyState4,        \* video.readyState === 4
    rafPending,         \* ids of animation frames requested and not yet run
    nextFrameId,        \* next id requestAnimationFrame hands out
    dfPc,               \* "idle", or "awaiting" (detectFaces suspended at await)
    dfSuspended,        \* detectFaces invocations suspended at the await
    dfLast,             \* path the last completed detectFaces invocation took
    dfCompleted,        \* detectFaces invocations that ran to completion
    faces,              \* local `faces` of the last detection that resolved
    resetInFlight,      \* resetStats ran while detectFaces was suspended
    sumConfidence,      \* sum of the confidences counted in totalDetections
    recorders,          \* the MediaRecorders created, in order of creation
    downloads,          \* file downloads triggered, in order
    nextChunk,          \* id of the next blob a recorder delivers
    recordingFailed,    \* startRecording has thrown
    uncaught            \* an exception escaped its handler

reactState == <<isLoading, error, faceDetector, isRecording, mediaRecorder,
                faceCount, detectionStats>>
initVars == <<initPc, tfAttempts, nativeAttempts, tfResult, nativeResult>>
effectVars == <<effectDeps, camPc, gumCalls>>
videoVars == <<liveStreams, srcObject, loadedListeners, loadedFired, readyState4>>
rafVars == <<animationFrameRef, rafPending, nextFrameId>>
loopVars == <<dfPc, dfSuspended, dfLast, dfCompleted, faces, resetInFlight, sumConfidence>>
recVars == <<recorders, downloads, nextChunk, recordingFailed>>
vars == <<mounted, reactState, initVars, effectVars, videoVars, rafVars,
          loopVars, recVars, uncaught>>

\* avgConfidence is a quotient of two integers; it is kept exact as num/den.
Ratio(num, den) == [num |-> num, den |-> den]

Init ==
    /\ mounted = TRUE
    /\ isLoading = TRUE
    /\ error = ""
    /\ faceDetector = NoDetector
    /\ isRecording = FALSE
    /\ mediaRecorder = 0
    /\ faceCount = 0
    /\ detectionStats = [totalDetections |-> 0, avgConfidence |-> Ratio(0, 1)]
    /\ animationFrameRef = 0
    /\ initPc = "unstarted"
    /\ tfAttempts = 0
    /\ nativeAttempts = 0
    /\ tfResult = "pending"
    /\ nativeResult = "pending"
    /\ effectDeps = <<>>
    /\ camPc = "idle"
    /\ gumCalls = 0
    /\ liveStreams = 0
    /\ srcObject = FALSE
    /\ loadedListeners = 0
    /\ loadedFired = FALSE
    /\ readyState4 = FALSE
    /\ rafPending = {}
    /\ nextFrameId = 1
    /\ dfPc = "idle"
    /\ dfSuspended = 0
    /\ dfLast = "none"
    /\ dfCompleted = 0
    /\ faces = <<>>
    /\ resetInFlight = FALSE
    /\ sumConfidence = 0
    /\ recorders = <<>>
    /\ downloads = <<>>
    /\ nextChunk = 1
    /\ recordingFailed = FALSE
    /\ uncaught = FALSE

\* ------------------------------------------------- animation-frame platform
\* cancelAnimationFrame(id): the pending frames that remain.
CancelAnimationFrame(id) == rafPending \ {id}

\* ------------------------------------------------------- the camera effect
\* Faulty variant of CameraDeps: error is listed as a dependency too.
CameraDepsWithError(loading, detector, err) == <<loading, detector, err>>

\* The effect's dependency array [isLoading, faceDetector, detectFaces],
\* line 369; detectFaces is memoised on [faceDetector] (line 205), so it
\* changes exactly when faceDetector does.
CameraDeps(loading, detector, err) == <<loading, detector>>

\* The cleanup the effect returns (lines 364-368).
EffectCleanup ==
    IF animationFrameRef # 0
    THEN CancelAnimationFrame(animationFrameRef)
    ELSE rafPending

\* A re-render with the given state: when the dependencies changed, the
\* previous run's cleanup runs and then the effect body (lines 359-361),
\* which calls initializeCamera up to its first await (getUserMedia).
\* pc is the position initializeCamera is left at otherwise.
Render(loading, detector, err, pc) ==
    IF mounted /\ CameraDeps(loading, detector, err) # effectDeps
    THEN /\ effectDeps' = CameraDeps(loading, detector, err)
         /\ rafPending' = (IF effectDeps = <<>> THEN rafPending ELSE EffectCleanup)
         /\ IF ~loading /\ detector # NoDetector
            THEN /\ camPc' = "getUserMedia"
                 /\ gumCalls' = gumCalls + 1
            ELSE /\ camPc' = pc
                 /\ gumCalls' = gumCalls
    ELSE /\ camPc' = pc
         /\ UNCHANGED <<effectDeps, rafPending, gumCalls>>

\* ------------------------------------------------------ detector bootstrap
\* Mount: the effects of the first commit.  initializeFaceDetection runs to
\* its first await inside initializeTensorFlowDetection; the camera effect
\* runs with isLoading true and does nothing.
Mount ==
    /\ initPc = "unstarted"
    /\ initPc' = "tensorflow"
    /\ tfAttempts' = tfAttempts + 1
    /\ isLoading' = TRUE
    /\ Render(TRUE, faceDetector, error, camPc)
    /\ UNCHANGED <<mounted, error, faceDetector, isRecording, mediaRecorder,
                   faceCount, detectionStats, nativeAttempts, tfResult,
                   nativeResult, videoVars, animationFrameRef, nextFrameId,
                   loopVars, recVars, uncaught>>

\* Faulty variant of TensorFlowLoaded: setIsLoading(false) is left out.
TensorFlowLoadedNoLoadingUpdate ==
    /\ initPc = "tensorflow"
    /\ tfResult' = "ok"
    /\ faceDetector' = "tensorflow"
    /\ initPc' = "done"
    /\ Render(isLoading, "tensorflow", error, camPc)
    /\ UNCHANGED <<mounted, isLoading, error, isRecording, mediaRecorder, faceCount,
                   detectionStats, tfAttempts, nativeAttempts, nativeResult,
                   videoVars, animationFrameRef, nextFrameId, loopVars,
                   recVars, uncaught>>

\* import, tf.ready and blazeface.load resolved: lines 85-94, then the
\* return of line 67.
TensorFlowLoaded ==
    /\ initPc = "tensorflow"
    /\ tfResult' = "ok"
    /\ faceDetector' = "tensorflow"
    /\ isLoading' = FALSE
    /\ initPc' = "done"
    /\ Render(FALSE, "tensorflow", error, camPc)
    /\ UNCHANGED <<mounted, error, isRecording, mediaRecorder, faceCount,
                   detectionStats, tfAttempts, nativeAttempts, nativeResult,
                   videoVars, animationFrameRef, nextFrameId, loopVars,
                   recVars, uncaught>>

\* One of the awaits of lines 79-83 rejected: caught at 95-98, false is
\* returned and initializeFaceDetection goes on to line 70.
TensorFlowFailed ==
    /\ initPc = "tensorflow"
    /\ tfResult' = "failed"
    /\ initPc' = "native"
    /\ nativeAttempts' = nativeAttempts + 1
    /\ UNCHANGED <<mounted, reactState, tfAttempts, nativeResult, effectVars,
                   videoVars, rafVars, loopVars, recVars, uncaught>>

\* window.FaceDetector exists and its constructor returns: lines 104-118.
NativeDetectorCreated ==
    /\ initPc = "native"
    /\ nativeResult' = "ok"
    /\ faceDetector' = "native"
    /\ isLoading' = FALSE
    /\ initPc' = "done"
    /\ Render(FALSE, "native", error, camPc)
    /\ UNCHANGED <<mounted, error, isRecording, mediaRecorder, faceCount,
                   detectionStats, tfAttempts, nativeAttempts, tfResult,
                   videoVars, animationFrameRef, nextFrameId, loopVars,
                   recVars, uncaught>>

\* window.FaceDetector is missing (line 124) or its constructor throws
\* (119-122): false is returned and lines 73-74 run.
NativeDetectorUnavailable ==
    /\ initPc = "native"
    /\ nativeResult' = "failed"
    /\ error' = NoDetectorMsg
    /\ isLoading' = FALSE
    /\ initPc' = "done"
    /\ Render(FALSE, faceDetector, NoDetectorMsg, camPc)
    /\ UNCHANGED <<mounted, faceDetector, isRecording, mediaRecorder, faceCount,
                   detectionStats, tfAttempts, nativeAttempts, tfResult,
                   videoVars, animationFrameRef, nextFrameId, loopVars,
                   recVars, uncaught>>

\* ------------------------------------------------------ camera acquisition
\* getUserMedia resolved: lines 341-351 up to the await of video.play().
GetUserMediaResolved ==
    /\ camPc = "getUserMedia"
    /\ liveStreams' = liveStreams + 1
    /\ srcObject' = TRUE
    /\ loadedListeners' = loadedListeners + 1
    /\ camPc' = "play"
    /\ UNCHANGED <<mounted, reactState, initVars, effectDeps, gumCalls,
                   loadedFired, readyState4, rafVars, loopVars, recVars, uncaught>>


\* Faulty variant of CameraCatch: the rejection is not caught.
CameraNoCatch ==
    /\ uncaught' = TRUE
    /\ UNCHANGED error

\* The catch block of initializeCamera, lines 352-355.
CameraCatch ==
    /\ error' = CameraMsg
    /\ UNCHANGED uncaught

\* getUserMedia rejected (permission denied, no device).
GetUserMediaRejected ==
    /\ camPc = "getUserMedia"
    /\ CameraCatch
    /\ Render(isLoading, faceDetector, error', "failed")
    /\ UNCHANGED <<mounted, isLoading, faceDetector, isRecording, mediaRecorder,
                   faceCount, detectionStats, initVars, videoVars,
                   animationFrameRef, nextFrameId, loopVars, recVars>>

\* video.play() resolved: initializeCamera returns.
VideoPlayResolved ==
    /\ camPc = "play"
    /\ camPc' = "playing"
    /\ UNCHANGED <<mounted, reactState, initVars, effectDeps, gumCalls,
                   videoVars, rafVars, loopVars, recVars, uncaught>>

\* video.play() rejected: the same catch block.
VideoPlayRejected ==
    /\ camPc = "play"
    /\ CameraCatch
    /\ Render(isLoading, faceDetector, error', "failed")
    /\ UNCHANGED <<mounted, isLoading, faceDetector, isRecording, mediaRecorder,
                   faceCount, detectionStats, initVars, videoVars,
                   animationFrameRef, nextFrameId, loopVars, recVars>>

\* The media element reaches or leaves HAVE_ENOUGH_DATA.
VideoReadyStateChange ==
    /\ srcObject
    /\ readyState4' = ~readyState4
    /\ UNCHANGED <<mounted, reactState, initVars, effectVars, liveStreams,
                   srcObject, loadedListeners, loadedFired, rafVars, loopVars,
                   recVars, uncaught>>

\* -------------------------------------------------------- detection results
\* The faces a detector resolves with.  BlazeFace (type Face, lines 17-23):
\* topLeft, and probability when the model reports it.  The native
\* FaceDetector (DetectedFace, lines 40-43): boundingBox and landmarks.
DetectedFaces(type) ==
    IF type = "tensorflow"
    THEN {[topLeft |-> "point", probability |-> <<p>>] : p \in Probabilities}
         \cup {[topLeft |-> "point"]}
    ELSE {[boundingBox |-> "rect", landmarks |-> "points"]}

Detections(type) == UNION {[1..n -> DetectedFaces(type)] : n \in 0..MaxFaces}

\* Lines 159-161: the native result keeps the bounding box only.
NativeFaces(detected) ==
    [i \in 1..Len(detected) |-> [boundingBox |-> detected[i].boundingBox]]

\* Lines 155-162: the local `faces` after the await.
Faces(type, detected) ==
    IF type = "native" THEN NativeFaces(detected) ELSE detected

\* Lines 169-186: the confidence drawn and summed for one face.
Confidence(type, face) ==
    IF type = "tensorflow" /\ "probability" \in DOMAIN face
    THEN face.probability[1]
    ELSE One

\* totalConfidence after the forEach of lines 168-189.
RECURSIVE TotalConfidence(_, _)
TotalConfidence(type, fs) ==
    IF fs = <<>> THEN 0
    ELSE Confidence(type, fs[Len(fs)]) + TotalConfidence(type, SubSeq(fs, 1, Len(fs) - 1))

\* Faulty variant of StatsUpdater: the total is taken from the
\* detectionStats the detectFaces closure captured (the initial one) and not
\* from prev.
StatsUpdaterStale(prev, n, totalConfidence) ==
    [totalDetections |-> 0 + n, avgConfidence |-> Ratio(totalConfidence, n)]

\* Faulty variant of StatsUpdater: the faces are subtracted.
StatsUpdaterSubtract(prev, n, totalConfidence) ==
    [totalDetections |-> prev.totalDetections - n,
     avgConfidence |-> Ratio(totalConfidence, n)]

\* The updater passed to setDetectionStats, lines 193-196.
StatsUpdater(prev, n, totalConfidence) ==
    [totalDetections |-> prev.totalDetections + n,
     avgConfidence |-> Ratio(totalConfidence, n)]

\* ----------------------------------------------------------- detectFaces
\* videoRef.current and canvasRef.current: the elements exist while the
\* component is mounted and renders its main view (line 429 otherwise).
RefsAttached == mounted /\ ~isLoading

\* Line 135.
NotReady == ~RefsAttached \/ faceDetector = NoDetector \/ ~readyState4

\* animationFrameRef.current = requestAnimationFrame(detectFaces), with
\* `pending` the frames pending before the call.
RequestFrame(pending) ==
    /\ animationFrameRef' = nextFrameId
    /\ rafPending' = pending \cup {nextFrameId}
    /\ nextFrameId' = nextFrameId + 1

\* No frame is requested: the pending frames stay as they are.
NoRequestFrame(pending) ==
    /\ rafPending' = pending
    /\ UNCHANGED <<animationFrameRef, nextFrameId>>

\* detectFaces returns, having taken `path`; `suspended` invocations are
\* left at the await.
Returned(path, suspended) ==
    /\ dfSuspended' = suspended
    /\ dfPc' = (IF suspended > 0 THEN "awaiting" ELSE "idle")
    /\ dfLast' = path
    /\ dfCompleted' = dfCompleted + 1

\* detectFaces returns without having awaited.
Completed(path) == Returned(path, dfSuspended)

\* detectFaces returns after its await.
Resumed(path) == Returned(path, dfSuspended - 1)

\* Lines 135-138.
DetectFacesNotReady(pending) ==
    /\ NotReady
    /\ RequestFrame(pending)
    /\ Completed("notReady")
    /\ UNCHANGED <<faces, resetInFlight>>

\* Faulty variant of DetectFacesNoContext: it returns without a request.
DetectFacesNoContextNoRequest(pending) ==
    /\ ~NotReady
    /\ NoRequestFrame(pending)
    /\ Completed("noContext")
    /\ UNCHANGED <<faces, resetInFlight>>

\* Lines 140-144: getContext('2d') returned null.
DetectFacesNoContext(pending) ==
    /\ ~NotReady
    /\ RequestFrame(pending)
    /\ Completed("noContext")
    /\ UNCHANGED <<faces, resetInFlight>>

\* Faulty variant of DetectFacesAwait: the next frame is requested before
\* the detector is awaited (and again at line 204).
DetectFacesAwaitAndRequest(pending) ==
    /\ ~NotReady
    /\ RequestFrame(pending)
    /\ dfPc' = "awaiting"
    /\ dfSuspended' = dfSuspended + 1
    /\ resetInFlight' = FALSE
    /\ UNCHANGED <<dfLast, dfCompleted, faces>>

\* Lines 146-158: the frame is drawn and the detector is awaited.
DetectFacesAwait(pending) ==
    /\ ~NotReady
    /\ NoRequestFrame(pending)
    /\ dfPc' = "awaiting"
    /\ dfSuspended' = dfSuspended + 1
    /\ resetInFlight' = FALSE
    /\ UNCHANGED <<dfLast, dfCompleted, faces>>

\* detectFaces from its entry to its return or first await.
DetectFacesEnter(pending) ==
    \/ DetectFacesNotReady(pending)
    \/ DetectFacesNoContext(pending)
    \/ DetectFacesAwait(pending)

\* The 'loadeddata' listener of lines 343-349.
LoadedData ==
    /\ srcObject /\ loadedListeners > 0 /\ ~loadedFired
    /\ loadedFired' = TRUE
    /\ DetectFacesEnter(rafPending)
    /\ UNCHANGED <<mounted, reactState, initVars, effectVars, liveStreams,
                   srcObject, loadedListeners, readyState4, sumConfidence,
                   recVars, uncaught>>

\* The browser runs a pending animation-frame callback.
AnimationFrame ==
    /\ nextFrameId <= MaxFrames
    /\ \E id \in rafPending : DetectFacesEnter(rafPending \ {id})
    /\ UNCHANGED <<mounted, reactState, initVars, effectVars, videoVars,
                   sumConfidence, recVars, uncaught>>

\* The detector's promise rejected: caught at lines 199-201, then line 204.
DetectionRejected ==
    /\ dfSuspended > 0
    /\ RequestFrame(rafPending)
    /\ Resumed("caught")
    /\ UNCHANGED <<mounted, reactState, initVars, effectVars, videoVars,
                   faces, resetInFlight, sumConfidence, recVars, uncaught>>

\* The detector resolved with `detected`; lines 159-197 ran, then line 204.
DetectionResolved ==
    /\ dfSuspended > 0
    /\ \E detected \in Detections(faceDetector) :
        LET fs == Faces(faceDetector, detected)
            n == Len(fs)
            totalConfidence == TotalConfidence(faceDetector, fs)
        IN /\ faces' = fs
           /\ faceCount' = n
           /\ IF n > 0
              THEN /\ detectionStats' = StatsUpdater(detectionStats, n, totalConfidence)
                   /\ sumConfidence' = sumConfidence + totalConfidence
              ELSE UNCHANGED <<detectionStats, sumConfidence>>
    /\ RequestFrame(rafPending)
    /\ Resumed("done")
    /\ UNCHANGED <<mounted, isLoading, error, faceDetector, isRecording,
                   mediaRecorder, initVars, effectVars, videoVars,
                   resetInFlight, recVars, uncaught>>

\* The detector resolved with at least one face and a canvas call of the
\* forEach (lines 168-189) threw: setFaceCount has run, setDetectionStats
\* has not; caught at 199-201, then line 204.
DrawingThrew ==
    /\ dfSuspended > 0
    /\ \E detected \in Detections(faceDetector) :
        LET fs == Faces(faceDetector, detected)
        IN /\ Len(fs) > 0
           /\ faces' = fs
           /\ faceCount' = Len(fs)
    /\ RequestFrame(rafPending)
    /\ Resumed("caught")
    /\ UNCHANGED <<mounted, isLoading, error, faceDetector, isRecording,
                   mediaRecorder, detectionStats, initVars, effectVars,
                   videoVars, resetInFlight, sumConfidence, recVars, uncaught>>

\* ------------------------------------------------------------- resetStats
\* Faulty variant of ResetStats: the face count is reset as well.
ResetStatsAndFaceCount ==
    /\ mounted /\ ~isLoading
    /\ detectionStats' = [totalDetections |-> 0, avgConfidence |-> Ratio(0, 1)]
    /\ faceCount' = 0
    /\ sumConfidence' = 0
    /\ resetInFlight' = (resetInFlight \/ dfPc = "awaiting")
    /\ UNCHANGED <<mounted, isLoading, error, faceDetector, isRecording,
                   mediaRecorder, initVars, effectVars, videoVars,
                   rafVars, dfPc, dfSuspended, dfLast, dfCompleted, faces, recVars,
                   uncaught>>

\* The Reset Stats button (lines 529-534) is rendered once isLoading is false.
ResetStats ==
    /\ mounted /\ ~isLoading
    /\ detectionStats' = [totalDetections |-> 0, avgConfidence |-> Ratio(0, 1)]
    /\ sumConfidence' = 0
    /\ resetInFlight' = (resetInFlight \/ dfPc = "awaiting")
    /\ UNCHANGED <<mounted, isLoading, error, faceDetector, isRecording,
                   mediaRecorder, faceCount, initVars, effectVars, videoVars,
                   rafVars, dfPc, dfSuspended, dfLast, dfCompleted, faces, recVars,
                   uncaught>>

\* -------------------------------------------------------------- recording
\* A blob a MediaRecorder delivers: a unique id and whether it holds data.
Blob(id, size) == [id |-> id, size |-> size]

\* Faulty variant of OnDataAvailable: empty blobs are kept too.
OnDataAvailableUnfiltered(chunks, data) == Append(chunks, data)

\* recorder.ondataavailable, lines 385-389.
OnDataAvailable(chunks, data) ==
    IF data.size > 0 THEN Append(chunks, data) ELSE chunks

\* recorder.onstop, lines 391-403: one download of the recorder's chunks.
OnStop(r, chunks) == Append(downloads, [session |-> r, content |-> chunks])

\* The Start Recording button (lines 512-519): rendered while not recording,
\* disabled while an error is shown.
CanStartRecording == mounted /\ ~isLoading /\ ~isRecording /\ error = ""

\* startRecording, lines 372-407, nothing threw.
StartRecording ==
    /\ CanStartRecording
    /\ Len(recorders) < MaxSessions
    /\ recorders' = Append(recorders,
                           [state |-> "recording", chunks |-> <<>>, delivered |-> <<>>])
    /\ mediaRecorder' = Len(recorders) + 1
    /\ isRecording' = TRUE
    /\ UNCHANGED <<mounted, isLoading, error, faceDetector, faceCount,
                   detectionStats, initVars, effectVars, videoVars, rafVars,
                   loopVars, downloads, nextChunk, recordingFailed, uncaught>>

\* startRecording, captureStream, the MediaRecorder constructor or
\* recorder.start threw: lines 408-411.
StartRecordingThrew ==
    /\ CanStartRecording
    /\ \E at \in {"captureStream", "MediaRecorder", "start"} :
        /\ error' = RecordingMsg
        /\ recordingFailed' = TRUE
    /\ Render(isLoading, faceDetector, error', camPc)
    /\ UNCHANGED <<mounted, isLoading, faceDetector, isRecording, mediaRecorder,
                   faceCount, detectionStats, initVars, videoVars,
                   animationFrameRef, nextFrameId, loopVars, recorders,
                   downloads, nextChunk, uncaught>>

\* A timeslice of recorder r elapsed (start(1000), line 405): dataavailable.
DataAvailable ==
    /\ nextChunk <= MaxChunks
    /\ \E r \in 1..Len(recorders), size \in {0, 1} :
        /\ recorders[r].state = "recording"
        /\ recorders' = [recorders EXCEPT
              ![r].chunks = OnDataAvailable(@, Blob(nextChunk, size)),
              ![r].delivered = Append(@, Blob(nextChunk, size))]
    /\ nextChunk' = nextChunk + 1
    /\ UNCHANGED <<mounted, reactState, initVars, effectVars, videoVars,
                   rafVars, loopVars, downloads, recordingFailed, uncaught>>

\* stopRecording, lines 414-420, from the Stop Recording button (rendered
\* while isRecording).  MediaRecorder.stop() makes the recorder inactive and
\* queues its last dataavailable and its stop event.
StopRecording ==
    /\ mounted /\ isRecording
    /\ IF mediaRecorder # 0 /\ recorders[mediaRecorder].state = "recording"
       THEN /\ recorders' = [recorders EXCEPT ![mediaRecorder].state = "stopping"]
            /\ mediaRecorder' = 0
            /\ isRecording' = FALSE
       ELSE UNCHANGED <<recorders, mediaRecorder, isRecording>>
    /\ UNCHANGED <<mounted, isLoading, error, faceDetector, faceCount,
                   detectionStats, initVars, effectVars, videoVars, rafVars,
                   loopVars, downloads, nextChunk, recordingFailed, uncaught>>

\* The browser stops recorder r by itself (its track ended, or an encoder
\* error): the recorder becomes inactive and the same events are queued.
RecorderEnded ==
    /\ \E r \in 1..Len(recorders) :
        /\ recorders[r].state = "recording"
        /\ recorders' = [recorders EXCEPT ![r].state = "stopping"]
    /\ UNCHANGED <<mounted, reactState, initVars, effectVars, videoVars,
                   rafVars, loopVars, downloads, nextChunk, recordingFailed,
                   uncaught>>

\* The events queued for an inactive recorder r: the last dataavailable,
\* then stop (onstop, lines 391-403).
RecorderStopEvents ==
    /\ \E r \in 1..Len(recorders), size \in {0, 1} :
        /\ recorders[r].state = "stopping"
        /\ LET last == Blob(nextChunk, size)
               chunks == OnDataAvailable(recorders[r].chunks, last)
           IN /\ recorders' = [recorders EXCEPT
                    ![r].chunks = chunks,
                    ![r].delivered = Append(@, last),
                    ![r].state = "stopped"]
              /\ downloads' = OnStop(r, chunks)
    /\ nextChunk' = nextChunk + 1
    /\ UNCHANGED <<mounted, reactState, initVars, effectVars, videoVars,
                   rafVars, loopVars, recordingFailed, uncaught>>

\* ---------------------------------------------------------------- unmount
\* React unmounts the component: the camera effect's cleanup (lines 364-368)
\* runs and the refs are detached.
Unmount ==
    /\ mounted /\ initPc # "unstarted"
    /\ mounted' = FALSE
    /\ rafPending' = EffectCleanup
    /\ UNCHANGED <<reactState, initVars, effectVars, videoVars,
                   animationFrameRef, nextFrameId, loopVars, recVars, uncaught>>

\* ---------------------------------------------------------- specifications
Bootstrap ==
    \/ Mount
    \/ TensorFlowLoaded
    \/ TensorFlowFailed
    \/ NativeDetectorCreated
    \/ NativeDetectorUnavailable

Camera ==
    \/ GetUserMediaResolved
    \/ GetUserMediaRejected
    \/ VideoPlayResolved
    \/ VideoPlayRejected

DetectionLoop ==
    \/ VideoReadyStateChange
    \/ LoadedData
    \/ AnimationFrame
    \/ DetectionRejected
    \/ DetectionResolved
    \/ DrawingThrew
    \/ ResetStats

Recorder ==
    \/ StartRecording
    \/ DataAvailable
    \/ StopRecording
    \/ RecorderEnded
    \/ RecorderStopEvents

Next == Bootstrap \/ Camera \/ DetectionLoop \/ Recorder \/ StartRecordingThrew \/ Unmount

Spec == Init /\ [][Next]_vars

\* The detection loop and the recorder share no state: the loop reads and
\* writes the statistics and the animation frames, the recorder its chunks
\* and downloads, and both only read mounted, isLoading and error.  Each is
\* checked with the other left out.
NextDetection == Bootstrap \/ Camera \/ DetectionLoop \/ StartRecordingThrew \/ Unmount

SpecDetection == Init /\ [][NextDetection]_vars

NextRecording == Bootstrap \/ Camera \/ Recorder \/ StartRecordingThrew \/ Unmount

SpecRecording == Init /\ [][NextRecording]_vars

\* The detection loop together with the recording controls.  The recorder's
\* dataavailable and stop events, which read and write only recorders,
\* downloads and nextChunk, are left out.
NextControls ==
    NextDetection \/ StartRecording \/ StopRecording \/ RecorderEnded

SpecControls == Init /\ [][NextControls]_vars

\* ------------------------------------------------------------ properties

\* C1 (detector bootstrap is a strict two-step fallback): the native
\* detector is attempted only after the TensorFlow initialisation failed;
\* the 'not available' error is set only after both failed; once
\* initialisation has finished isLoading is false and the stored detector is
\* the first one that initialised; and in the step that finishes it exactly
\* one of (faceDetector is set, error is non-empty) holds.
FirstInitialised ==
    IF tfResult = "ok" THEN "tensorflow"
    ELSE IF nativeResult = "ok" THEN "native"
    ELSE NoDetector

C1_FallbackOrder ==
    /\ nativeAttempts > 0 => tfResult = "failed"
    /\ nativeResult = "ok" => tfResult = "failed"
    /\ error = NoDetectorMsg => tfResult = "failed" /\ nativeResult = "failed"
    /\ initPc = "done" => ~isLoading /\ faceDetector = FirstInitialised
    /\ initPc # "done" => isLoading /\ faceDetector = NoDetector /\ error = ""

C1_FinishStep ==
    (initPc # "done" /\ initPc' = "done") =>
        /\ ~isLoading'
        /\ (faceDetector' # NoDetector) # (error' # "")

C1_TwoStepFallback == []C1_FallbackOrder /\ [][C1_FinishStep]_vars

C1_Witness == initPc = "done" /\ faceDetector = "native" /\ tfAttempts = 1

\* C2 (every failure is caught and surfaced): no exception escapes, and
\* after a failed camera acquisition, after both detectors failed and after
\* a failed recording start the error message is non-empty.
C2_ErrorsSurfaced ==
    /\ ~uncaught
    /\ camPc = "failed" => error # ""
    /\ (tfResult = "failed" /\ nativeResult = "failed") => error # ""
    /\ recordingFailed => error # ""

C2_Witness == camPc = "failed" /\ recordingFailed /\ error = CameraMsg

\* C3 (teardown stops the callback loop): once the component is unmounted,
\* and its cleanup has therefore run, no detectFaces invocation starts,
\* resumes or completes and no animation frame is requested.
C3_CleanupStopsLoop ==
    [][~mounted =>
          /\ dfPc' = dfPc
          /\ dfCompleted' = dfCompleted
          /\ nextFrameId' = nextFrameId]_vars

\* C4 (teardown releases the camera stream): after unmount no MediaStream
\* obtained from getUserMedia has live tracks.
C4_StreamReleased == ~mounted => liveStreams = 0

\* C5 (avgConfidence is a running average): whenever detections have been
\* counted, avgConfidence = sumConfidence / totalDetections.
C5_RunningAverage ==
    detectionStats.totalDetections > 0 =>
        detectionStats.avgConfidence.num * detectionStats.totalDetections
            = sumConfidence * detectionStats.avgConfidence.den

\* C6 (counts are non-negative): faceCount >= 0 and totalDetections >= 0 in
\* every reachable state.
C6_CountsNonNegative ==
    /\ faceCount >= 0
    /\ detectionStats.totalDetections >= 0

C6_Witness ==
    /\ dfLast = "done" /\ dfCompleted = 2
    /\ faceCount = 0
    /\ detectionStats.totalDetections > 0

\* C7 (one download per recording session): a recorder whose stop event
\* has fired has exactly one download, holding in arrival order exactly the
\* non-empty blobs delivered to that recorder; a recorder that has not
\* stopped has none; no blob delivered to one recorder is in the download of
\* another.
NonEmpty(blob) == blob.size > 0

DownloadsOf(r) == SelectSeq(downloads, LAMBDA d : d.session = r)

Range(seq) == {seq[i] : i \in 1..Len(seq)}

C7_OneDownloadPerSession ==
    /\ \A r \in 1..Len(recorders) :
          IF recorders[r].state = "stopped"
          THEN /\ Len(DownloadsOf(r)) = 1
               /\ DownloadsOf(r)[1].content = SelectSeq(recorders[r].delivered, NonEmpty)
          ELSE DownloadsOf(r) = <<>>
    /\ \A i \in 1..Len(downloads) :
          /\ downloads[i].session \in 1..Len(recorders)
          /\ \A r \in 1..Len(recorders) :
                r # downloads[i].session =>
                    Range(downloads[i].content) \cap Range(recorders[r].delivered) = {}

C7_Witness ==
    /\ Len(downloads) = 2
    /\ \E i \in 1..2 :
          /\ Len(downloads[i].content) = 1
          /\ Len(recorders[downloads[i].session].delivered) = 2
    /\ \E i \in 1..2 : downloads[i].session = 2 /\ downloads[i].content # <<>>

\* C8 (no retry): each detector initialisation is attempted at most once,
\* and once camera acquisition has failed getUserMedia has been called once
\* and is not called again.
C8_NoRetry ==
    /\ tfAttempts <= 1
    /\ nativeAttempts <= 1
    /\ (camPc = "failed" \/ error = CameraMsg) => gumCalls = 1

C8_Witness == camPc = "failed" /\ recordingFailed /\ faceCount > 0

\* C9 (the loop never stalls on its own): a step that completes a
\* detectFaces invocation requests exactly one animation frame, whose id
\* is stored in animationFrameRef; when the invocation ended in its catch
\* block, error and detectionStats are unchanged.
C9_Step ==
    dfCompleted' # dfCompleted =>
        /\ nextFrameId' = nextFrameId + 1
        /\ animationFrameRef' = nextFrameId
        /\ rafPending' \ rafPending = {nextFrameId}
        /\ dfLast' = "caught" => error' = error /\ detectionStats' = detectionStats

C9_LoopContinues == [][C9_Step]_vars

C9_Witness ==
    /\ dfLast = "caught" /\ faceCount > 0
    /\ animationFrameRef \in rafPending

\* C10 (per-frame statistics accumulation): a successfully processed frame
\* with n faces sets faceCount to n; if n > 0 it adds n to the
\* totalDetections current at that step; if n = 0 it leaves detectionStats
\* unchanged; and totalDetections decreases only in a resetStats step.
C10_Step ==
    /\ (dfCompleted' # dfCompleted /\ dfLast' = "done") =>
          LET n == Len(faces')
          IN /\ faceCount' = n
             /\ n > 0 => detectionStats'.totalDetections
                             = detectionStats.totalDetections + n
             /\ n = 0 => detectionStats' = detectionStats
    /\ detectionStats'.totalDetections < detectionStats.totalDetections =>
          ResetStats

C10_Accumulation == [][C10_Step]_vars

C10_Witness ==
    /\ dfLast = "done" /\ dfCompleted = 2
    /\ resetInFlight
    /\ faceCount = 2
    /\ detectionStats.totalDetections = 2

\* C11 (resetStats resets the statistics and nothing else): a step that
\* brings totalDetections back to 0 also sets avgConfidence to 0 and leaves
\* faceCount, isRecording, mediaRecorder, the recorders, error, faceDetector,
\* isLoading and the detection loop (its pending frames, animationFrameRef
\* and the suspended invocation) as they were.
C11_Step ==
    (detectionStats.totalDetections > 0 /\ detectionStats'.totalDetections = 0) =>
        /\ detectionStats'.avgConfidence = Ratio(0, 1)
        /\ faceCount' = faceCount
        /\ isRecording' = isRecording
        /\ mediaRecorder' = mediaRecorder
        /\ recorders' = recorders
        /\ error' = error
        /\ faceDetector' = faceDetector
        /\ isLoading' = isLoading
        /\ rafVars' = rafVars
        /\ dfPc' = dfPc
        /\ dfSuspended' = dfSuspended
        /\ dfCompleted' = dfCompleted

C11_ResetFrame == [][C11_Step]_vars

C11_Witness ==
    /\ detectionStats.totalDetections = 0
    /\ dfLast = "done" /\ faceCount > 0
    /\ resetInFlight /\ dfPc = "awaiting"
    /\ isRecording /\ mediaRecorder # 0

\* C12 (at most one detection loop is live): the animation frames pending
\* for detectFaces and the detectFaces invocations suspended at the
\* detector's await are never more than one altogether.
LiveChains == Cardinality(rafPending) + dfSuspended

C12_SingleLoop == LiveChains <= 1

C12_Witness ==
    /\ dfSuspended = 1 /\ dfCompleted = 1
    /\ loadedFired
    /\ effectDeps = <<FALSE, "native">>
    /\ ~mounted

\* C13 (recording state is consistent): isRecording is true exactly when
\* mediaRecorder holds a recorder whose state is not 'inactive'; so after a
\* failed startRecording, and after stopRecording, isRecording is false and
\* mediaRecorder is null.
RecorderActive ==
    /\ mediaRecorder # 0
    /\ recorders[mediaRecorder].state = "recording"

C13_RecordingConsistent ==
    /\ isRecording <=> RecorderActive
    /\ ~isRecording => mediaRecorder = 0
====
